---- MODULE Spec2Model ----
(***************************************************************************)
(* Model of Lab6_Botones/main.c: six push buttons on an ATmega328P, read   *)
(* by three pin-change interrupt handlers, reported as one-byte commands   *)
(* over an interrupt-driven UART transmitter with a 32-slot ring buffer.   *)
(*                                                                         *)
(* Execution model.  There is one CPU.  main() runs with interrupts        *)
(* enabled and can be preempted between any two accesses to a volatile     *)
(* object, so every main-context action below performs at most one such    *)
(* access.  An ISR() handler runs with the global interrupt flag cleared   *)
(* (no ISR_NOBLOCK in the source), so a handler is one atomic action.  A   *)
(* handler that enters the busy-wait of uart_send_char can never leave it  *)
(* (the transmit-complete handler cannot run): that is the state `hung`.   *)
(***************************************************************************)
EXTENDS Integers, Sequences, FiniteSets, TLC

----------------------------------------------------------------------------
(* Program constants                                                       *)

CMD_UP == 85
CMD_DOWN == 68
CMD_RIGHT == 82
CMD_LEFT == 76
CMD_ACTION_A == 65
CMD_ACTION_B == 66
CMD_HEARTBEAT == 72
LF == 10

PB3 == 3
PB4 == 4
PC2 == 2
PC3 == 3
PD2 == 2
PD5 == 5

BTN_UP == 2^PC3
BTN_DOWN == 2^PB3
BTN_RIGHT == 2^PB4
BTN_LEFT == 2^PC2
BTN_ACTION_A == 2^PD5
BTN_ACTION_B == 2^PD2

UART_BUFFER_SIZE == 32
HEARTBEAT_PERIOD == 1000

\* "START\n"
START_STR == <<83, 84, 65, 82, 84, 10>>

\* pin-change masks written by setup_pin_change_interrupts
PCMSK0 == 2^3 + 2^4
PCMSK1 == 2^2 + 2^3
PCMSK2 == 2^2 + 2^5

----------------------------------------------------------------------------
(* Bounds of the model                                                     *)

\* pin-level changes the environment makes in one run of Spec
MaxFlips == 1
\* pin-level changes the environment makes in one run of SpecEdge
MaxEdgeFlips == 3
\* main-loop iterations explored after a heartbeat in Spec
PostLoops == 0
\* main-loop iterations before the heartbeat is due in Spec's initial state
HbLead == 1
\* main-loop iterations explored from reset in SpecQuiet
MaxQuietLoops == 2001
\* length of the string sent in SpecFill
FillLen == 40
\* transmit-complete events serviced in one run of Spec, SpecQuiet, SpecFill
MaxDrains == 2
MaxQuietDrains == 7
MaxFillDrains == 2
\* pin-level changes and transmit-complete events in one run of SpecStart
MaxStartFlips == 1
MaxStartDrains == 2
\* pin-level changes in one run of SpecBurst
MaxBurstFlips == 1

\* heartbeats already sent and drained in Spec's initial states
InitBeats == {12}
\* start index of the empty queue in SpecFill
FillStarts == {0, 20}
\* a pin outside every pin-change mask, to exercise non-monitored bits
OtherPin == 2^0

----------------------------------------------------------------------------
(* 8-bit arithmetic                                                        *)

Bit(v, b) == (v \div (2^b)) % 2

Xor8(a, b) ==
  LET x(i) == ((Bit(a, i) + Bit(b, i)) % 2) * 2^i
  IN  x(0) + x(1) + x(2) + x(3) + x(4) + x(5) + x(6) + x(7)

And8(a, b) ==
  LET x(i) == (Bit(a, i) * Bit(b, i)) * 2^i
  IN  x(0) + x(1) + x(2) + x(3) + x(4) + x(5) + x(6) + x(7)

Slots == 0 .. (UART_BUFFER_SIZE - 1)

\* faulty variant, for sensitivity: the index advance without the modulo
NextIndexNoWrap(i) == i + 1

\* (i + 1) % UART_BUFFER_SIZE, the index advance of lines 56, 61 and 71
NextIndex(i) == (i + 1) % UART_BUFFER_SIZE

\* faulty variant, for sensitivity: the queue counts as full one slot early
QueueFullEarly(nh, tail) == NextIndex(nh) = tail

\* the busy-wait condition of line 62
QueueFull(nh, tail) == nh = tail

\* faulty variant, for sensitivity: any change of the pin counts, rising edges too
FallingEdgeAnyChange(changed, current, btn) == And8(changed, btn) # 0

\* the edge test of lines 97, 103, 117, 123, 137, 143
FallingEdge(changed, current, btn) ==
  And8(changed, btn) # 0 /\ And8(current, btn) = 0

\* faulty variant, for sensitivity: the heartbeat comes one iteration late
HeartbeatDueLate(c) == c > HEARTBEAT_PERIOD

\* the test of line 174, applied to the incremented counter
HeartbeatDue(c) == c >= HEARTBEAT_PERIOD

----------------------------------------------------------------------------
VARIABLES
  \* the program's shared (volatile) objects
  uart_tx_buffer, uart_tx_head, uart_tx_tail, uart_transmitting,
  last_portb, last_portc, last_portd,
  \* main(): position, and the locals of main, uart_send_string and of the
  \* uart_send_char / uart_start_if_idle call it is in
  pc, ret, heartbeat_counter, str, s, data, next_head, idx, tmp,
  \* hardware: input registers, pending pin-change flags, bytes written to
  \* UDR0, transmit-complete events not yet serviced
  PINB, PINC, PIND, pcif, udr, txc,
  \* a handler is stuck in the busy-wait with interrupts disabled
  hung,
  \* history: bytes in the order line 63 stored them (a byte's id is its
  \* position here), the id held by each slot, the ids handed to UDR0, the
  \* ids whose uart_send_char has returned, the id main is enqueueing and
  \* the id of the byte in tmp, the last handler evaluation, the main-loop
  \* iterations run, the pin changes made, and the channel state when main
  \* entered its current uart_send_char
  enq, slot_id, sent, returned, cur_id, tmp_id, ev, n, flips, entry,
  \* transmit-complete events serviced in this run
  drains

progvars == <<uart_tx_buffer, uart_tx_head, uart_tx_tail, uart_transmitting,
              last_portb, last_portc, last_portd>>
mainvars == <<pc, ret, heartbeat_counter, str, s, data, next_head, idx, tmp>>
hwvars   == <<PINB, PINC, PIND, pcif, udr, txc>>
histvars == <<enq, slot_id, sent, returned, cur_id, tmp_id, ev, n, flips, entry,
              drains>>
vars == <<progvars, mainvars, hwvars, hung, histvars>>

----------------------------------------------------------------------------
(* Initial states                                                          *)

NoEv == [g |-> "-", prev |-> 0, cur |-> 0, out |-> <<>>, done |-> FALSE]
NoEntry == [idle |-> FALSE, nudr |-> 0, nenq |-> 0, ndrains |-> 0]

\* input levels with no button pressed: the pull-ups of lines 154, 157, 160
\* hold the monitored pins high
IdleB == BTN_DOWN + BTN_RIGHT
IdleC == BTN_UP + BTN_LEFT
IdleD == BTN_ACTION_A + BTN_ACTION_B

\* the state at entry to main(): the initialisers of lines 27-35
InitReset ==
  /\ uart_tx_buffer = [i \in Slots |-> 0]
  /\ uart_tx_head = 0
  /\ uart_tx_tail = 0
  /\ uart_transmitting = FALSE
  /\ last_portb = 0 /\ last_portc = 0 /\ last_portd = 0
  /\ pc = "boot" /\ ret = "-"
  /\ heartbeat_counter = 0
  /\ str = START_STR /\ s = 1
  /\ data = 0 /\ next_head = 0 /\ idx = 0 /\ tmp = 0
  /\ PINB = IdleB /\ PINC = IdleC /\ PIND = IdleD
  /\ pcif = {} /\ udr = <<>> /\ txc = 0
  /\ hung = FALSE
  /\ enq = <<>> /\ slot_id = [i \in Slots |-> 0] /\ sent = <<>>
  /\ returned = {} /\ cur_id = 0 /\ tmp_id = 0
  /\ ev = NoEv /\ n = 0 /\ flips = 0 /\ entry = NoEntry /\ drains = 0

\* the bytes sent by the time k heartbeats have gone out: "START\n" (H \n)^k
BootImage(k) ==
  [i \in 1 .. (Len(START_STR) + 2 * k) |->
     IF i <= Len(START_STR) THEN START_STR[i]
     ELSE IF (i - Len(START_STR)) % 2 = 1 THEN CMD_HEARTBEAT ELSE LF]

\* The state main() is in at the top of its loop, HbLead iterations before
\* heartbeat k+1 is due, when no button was touched and everything enqueued
\* so far has been transmitted.  SpecQuiet reaches it from InitReset (see
\* QuietReachesLoopTop).
InitLoop(k) ==
  LET img == BootImage(k)
      L   == Len(img)
  IN
  /\ uart_tx_buffer = [i \in Slots |-> IF i < L THEN img[i + 1] ELSE 0]
  /\ uart_tx_head = L % UART_BUFFER_SIZE
  /\ uart_tx_tail = L % UART_BUFFER_SIZE
  /\ uart_transmitting = FALSE
  /\ last_portb = IdleB /\ last_portc = IdleC /\ last_portd = IdleD
  /\ pc = "loop" /\ ret = "-"
  /\ heartbeat_counter = HEARTBEAT_PERIOD - HbLead
  /\ str = START_STR /\ s = Len(START_STR) + 1
  /\ data = 0 /\ next_head = 0 /\ idx = 0 /\ tmp = 0
  /\ PINB = IdleB /\ PINC = IdleC /\ PIND = IdleD
  /\ pcif = {} /\ udr = img /\ txc = 0
  /\ hung = FALSE
  /\ enq = img /\ slot_id = [i \in Slots |-> IF i < L THEN i + 1 ELSE 0]
  /\ sent = [i \in 1 .. L |-> i]
  /\ returned = 1 .. L /\ cur_id = 0 /\ tmp_id = 0
  /\ ev = NoEv /\ n = HEARTBEAT_PERIOD * (k + 1) - HbLead
  /\ flips = 0 /\ entry = NoEntry /\ drains = 0

Init == \E k \in InitBeats : InitLoop(k)

\* uart_send_string(FillString) about to run on an empty, idle queue
FillString == [i \in 1 .. FillLen |-> 96 + i]

InitFill ==
  \E h \in FillStarts :
    /\ uart_tx_buffer = [i \in Slots |-> 0]
    /\ uart_tx_head = h
    /\ uart_tx_tail = h
    /\ uart_transmitting = FALSE
    /\ last_portb = IdleB /\ last_portc = IdleC /\ last_portd = IdleD
    /\ pc = "str" /\ ret = "-"
    /\ heartbeat_counter = 0
    /\ str = FillString /\ s = 1
    /\ data = 0 /\ next_head = 0 /\ idx = 0 /\ tmp = 0
    /\ PINB = IdleB /\ PINC = IdleC /\ PIND = IdleD
    /\ pcif = {} /\ udr = <<>> /\ txc = 0
    /\ hung = FALSE
    /\ enq = <<>> /\ slot_id = [i \in Slots |-> 0] /\ sent = <<>>
    /\ returned = {} /\ cur_id = 0 /\ tmp_id = 0
    /\ ev = NoEv /\ n = 0 /\ flips = 0 /\ entry = NoEntry /\ drains = 0

----------------------------------------------------------------------------
(* The transmitter as run inside a handler: uart_send_char and             *)
(* uart_start_if_idle executed without preemption, on a record of the      *)
(* queue state                                                             *)

Q == [buf |-> uart_tx_buffer, head |-> uart_tx_head, tail |-> uart_tx_tail,
      tx |-> uart_transmitting, udr |-> udr, txc |-> txc, hung |-> hung,
      enq |-> enq, sid |-> slot_id, sent |-> sent, returned |-> returned]

\* lines 52-58
uart_start_if_idle(q) ==
  IF ~q.tx /\ q.head # q.tail
  THEN [q EXCEPT !.tx = TRUE,
                 !.udr = Append(@, q.buf[q.tail]),
                 !.sent = Append(@, q.sid[q.tail]),
                 !.txc = @ + 1,
                 !.tail = NextIndex(q.tail)]
  ELSE q

\* lines 60-66; with the queue full the loop of line 62 never ends
uart_send_char(q, b) ==
  IF q.hung THEN q
  ELSE LET nh == NextIndex(q.head)
           id == Len(q.enq) + 1
       IN  IF QueueFull(nh, q.tail)
           THEN [q EXCEPT !.hung = TRUE]
           ELSE LET q1 == [q EXCEPT !.buf[q.head] = b,
                                    !.sid[q.head] = id,
                                    !.enq = Append(@, b),
                                    !.head = nh]
                    q2 == uart_start_if_idle(q1)
                IN  [q2 EXCEPT !.returned = @ \cup {id}]

\* the two calls made for one detected edge
SendPair(q, cmd) == uart_send_char(uart_send_char(q, cmd), LF)

\* write a queue record back to the variables
Commit(q) ==
  /\ uart_tx_buffer' = q.buf
  /\ uart_tx_head' = q.head
  /\ uart_tx_tail' = q.tail
  /\ uart_transmitting' = q.tx
  /\ udr' = q.udr
  /\ txc' = q.txc
  /\ hung' = q.hung
  /\ enq' = q.enq
  /\ slot_id' = q.sid
  /\ sent' = q.sent
  /\ returned' = q.returned

\* hardware accepts an interrupt: global flag set by sei() (line 164) and
\* no handler running
IntEnabled == pc # "boot" /\ ~hung

----------------------------------------------------------------------------
(* main() and the calls it makes, one volatile access per action           *)

lastvars == <<last_portb, last_portc, last_portd>>
pinvars  == <<PINB, PINC, PIND, pcif, flips, ev, drains>>
queuevars == <<uart_tx_buffer, uart_tx_head, uart_tx_tail, uart_transmitting,
               udr, txc, enq, slot_id, sent>>
callvars == <<ret, data, entry>>
localvars == <<next_head, idx, tmp, tmp_id, cur_id>>

\* the channel as main finds it when it enters uart_send_char
EntryNow == [idle |-> ~uart_transmitting /\ uart_tx_head = uart_tx_tail,
             nudr |-> Len(udr), nenq |-> Len(enq), ndrains |-> drains]

\* main calls uart_send_char(b) and continues at r when it returns
Call(b, r) ==
  /\ pc' = "sc_head"
  /\ data' = b
  /\ ret' = r
  /\ entry' = EntryNow

\* lines 153-166 and the call of line 169
main_boot ==
  /\ pc = "boot" /\ ~hung
  /\ last_portb' = PINB
  /\ last_portc' = PINC
  /\ last_portd' = PIND
  /\ pc' = "str"
  /\ UNCHANGED <<queuevars, callvars, localvars, pinvars, hung,
                 heartbeat_counter, str, s, returned, n>>

\* lines 48-50: one test of *s, and the call for that byte
uart_send_string ==
  /\ pc = "str" /\ ~hung
  /\ IF s <= Len(str)
     THEN Call(str[s], "str") /\ s' = s + 1
     ELSE pc' = "main_171" /\ UNCHANGED <<callvars, s>>
  /\ UNCHANGED <<queuevars, lastvars, localvars, pinvars, hung,
                 heartbeat_counter, str, returned, n>>

\* line 171
main_171 ==
  /\ pc = "main_171" /\ ~hung
  /\ heartbeat_counter' = 0
  /\ pc' = "loop"
  /\ UNCHANGED <<queuevars, lastvars, callvars, localvars, pinvars, hung,
                 str, s, returned, n>>

\* lines 173-175 and 179: one pass of the loop up to the first call or,
\* when no heartbeat is due, through the delay
main_loop(go) ==
  /\ pc = "loop" /\ ~hung /\ go
  /\ LET c == (heartbeat_counter + 1) % 65536
     IN  /\ heartbeat_counter' = c
         /\ IF HeartbeatDue(c)
            THEN Call(CMD_HEARTBEAT, "hb_lf")
            ELSE pc' = "loop" /\ UNCHANGED callvars
  /\ n' = n + 1
  /\ UNCHANGED <<queuevars, lastvars, localvars, pinvars, hung,
                 str, s, returned>>

\* line 176
main_hb_lf ==
  /\ pc = "hb_lf" /\ ~hung
  /\ Call(LF, "hb_reset")
  /\ UNCHANGED <<queuevars, lastvars, localvars, pinvars, hung,
                 heartbeat_counter, str, s, returned, n>>

\* lines 177 and 179
main_hb_reset ==
  /\ pc = "hb_reset" /\ ~hung
  /\ heartbeat_counter' = 0
  /\ pc' = "loop"
  /\ UNCHANGED <<queuevars, lastvars, callvars, localvars, pinvars, hung,
                 str, s, returned, n>>

\* everything a step inside uart_send_char leaves alone, besides the queue
\* and its own locals
OutsideCall == <<lastvars, callvars, pinvars, hung, heartbeat_counter, str, s,
                 returned, n>>

\* line 61: read uart_tx_head
sc_head ==
  /\ pc = "sc_head" /\ ~hung
  /\ next_head' = NextIndex(uart_tx_head)
  /\ pc' = "sc_wait"
  /\ UNCHANGED <<queuevars, OutsideCall, idx, tmp, tmp_id, cur_id>>

\* line 62: read uart_tx_tail; spin while the queue is full
sc_wait ==
  /\ pc = "sc_wait" /\ ~hung
  /\ IF QueueFull(next_head, uart_tx_tail) THEN pc' = pc ELSE pc' = "sc_idx"
  /\ UNCHANGED <<queuevars, OutsideCall, localvars>>

\* line 63: read uart_tx_head for the subscript
sc_idx ==
  /\ pc = "sc_idx" /\ ~hung
  /\ idx' = uart_tx_head
  /\ pc' = "sc_store"
  /\ UNCHANGED <<queuevars, OutsideCall, next_head, tmp, tmp_id, cur_id>>

\* line 63: store the byte
sc_store ==
  /\ pc = "sc_store" /\ ~hung
  /\ uart_tx_buffer' = [uart_tx_buffer EXCEPT ![idx] = data]
  /\ enq' = Append(enq, data)
  /\ slot_id' = [slot_id EXCEPT ![idx] = Len(enq) + 1]
  /\ cur_id' = Len(enq) + 1
  /\ pc' = "sc_pub"
  /\ UNCHANGED <<uart_tx_head, uart_tx_tail, uart_transmitting, udr, txc, sent,
                 OutsideCall, next_head, idx, tmp, tmp_id>>

\* line 64: write uart_tx_head
sc_pub ==
  /\ pc = "sc_pub" /\ ~hung
  /\ uart_tx_head' = next_head
  /\ pc' = "si_flag"
  /\ UNCHANGED <<uart_tx_buffer, uart_tx_tail, uart_transmitting, udr, txc, enq,
                 slot_id, sent, OutsideCall, localvars>>

\* line 53: read uart_transmitting
si_flag ==
  /\ pc = "si_flag" /\ ~hung
  /\ pc' = IF uart_transmitting THEN "sc_ret" ELSE "si_cmp"
  /\ UNCHANGED <<queuevars, OutsideCall, localvars>>

\* line 53: read the first operand of uart_tx_head != uart_tx_tail; C leaves
\* the order of the two reads to the compiler
si_cmp ==
  /\ pc = "si_cmp" /\ ~hung
  /\ \E first \in {"head", "tail"} :
       /\ idx' = IF first = "head" THEN uart_tx_head ELSE uart_tx_tail
       /\ pc' = IF first = "head" THEN "si_cmp_t" ELSE "si_cmp_h"
  /\ UNCHANGED <<queuevars, OutsideCall, next_head, tmp, tmp_id, cur_id>>

\* line 53: head was read first, read uart_tx_tail and compare
si_cmp_t ==
  /\ pc = "si_cmp_t" /\ ~hung
  /\ pc' = IF idx # uart_tx_tail THEN "si_set" ELSE "sc_ret"
  /\ UNCHANGED <<queuevars, OutsideCall, localvars>>

\* line 53: tail was read first, read uart_tx_head and compare
si_cmp_h ==
  /\ pc = "si_cmp_h" /\ ~hung
  /\ pc' = IF uart_tx_head # idx THEN "si_set" ELSE "sc_ret"
  /\ UNCHANGED <<queuevars, OutsideCall, localvars>>

\* line 54
si_set ==
  /\ pc = "si_set" /\ ~hung
  /\ uart_transmitting' = TRUE
  /\ pc' = "si_rdtail"
  /\ UNCHANGED <<uart_tx_buffer, uart_tx_head, uart_tx_tail, udr, txc, enq,
                 slot_id, sent, OutsideCall, localvars>>

\* line 55: read uart_tx_tail for the subscript
si_rdtail ==
  /\ pc = "si_rdtail" /\ ~hung
  /\ idx' = uart_tx_tail
  /\ pc' = "si_rdbuf"
  /\ UNCHANGED <<queuevars, OutsideCall, next_head, tmp, tmp_id, cur_id>>

\* line 55: read the slot
si_rdbuf ==
  /\ pc = "si_rdbuf" /\ ~hung
  /\ tmp' = uart_tx_buffer[idx]
  /\ tmp_id' = slot_id[idx]
  /\ pc' = "si_udr"
  /\ UNCHANGED <<queuevars, OutsideCall, next_head, idx, cur_id>>

\* line 55: write UDR0
si_udr ==
  /\ pc = "si_udr" /\ ~hung
  /\ udr' = Append(udr, tmp)
  /\ sent' = Append(sent, tmp_id)
  /\ txc' = txc + 1
  /\ pc' = "si_rdtail2"
  /\ UNCHANGED <<uart_tx_buffer, uart_tx_head, uart_tx_tail, uart_transmitting,
                 enq, slot_id, OutsideCall, localvars>>

\* line 56: read uart_tx_tail
si_rdtail2 ==
  /\ pc = "si_rdtail2" /\ ~hung
  /\ idx' = uart_tx_tail
  /\ pc' = "si_wrtail"
  /\ UNCHANGED <<queuevars, OutsideCall, next_head, tmp, tmp_id, cur_id>>

\* faulty variant, for sensitivity: uart_start_if_idle returns without advancing uart_tx_tail
si_wrtail_skipped ==
  /\ pc = "si_wrtail" /\ ~hung
  /\ pc' = "sc_ret"
  /\ UNCHANGED <<queuevars, OutsideCall, localvars>>

\* line 56: write uart_tx_tail
si_wrtail ==
  /\ pc = "si_wrtail" /\ ~hung
  /\ uart_tx_tail' = NextIndex(idx)
  /\ pc' = "sc_ret"
  /\ UNCHANGED <<uart_tx_buffer, uart_tx_head, uart_transmitting, udr, txc, enq,
                 slot_id, sent, OutsideCall, localvars>>

\* lines 58 and 66: return to the caller; the locals go out of scope
sc_ret ==
  /\ pc = "sc_ret" /\ ~hung
  /\ pc' = ret
  /\ returned' = returned \cup {cur_id}
  /\ ret' = "-" /\ data' = 0 /\ entry' = NoEntry
  /\ next_head' = 0 /\ idx' = 0 /\ tmp' = 0 /\ tmp_id' = 0 /\ cur_id' = 0
  /\ UNCHANGED <<queuevars, lastvars, pinvars, hung, heartbeat_counter, str, s, n>>

\* main's steps inside uart_send_char and uart_start_if_idle
SendCharStep ==
  \/ sc_head \/ sc_wait \/ sc_idx \/ sc_store \/ sc_pub
  \/ si_flag \/ si_cmp \/ si_cmp_t \/ si_cmp_h \/ si_set
  \/ si_rdtail \/ si_rdbuf \/ si_udr \/ si_rdtail2 \/ si_wrtail
  \/ sc_ret

----------------------------------------------------------------------------
(* Interrupt handlers                                                      *)

\* faulty variant, for sensitivity: the handler clears uart_transmitting although it
\* found a byte to send
USART_TX_vect_idles(go) ==
  /\ IntEnabled /\ txc > 0 /\ go
  /\ IF uart_tx_head # uart_tx_tail
     THEN /\ udr' = Append(udr, uart_tx_buffer[uart_tx_tail])
          /\ sent' = Append(sent, slot_id[uart_tx_tail])
          /\ uart_tx_tail' = NextIndex(uart_tx_tail)
          /\ uart_transmitting' = FALSE
          /\ UNCHANGED txc
     ELSE /\ uart_transmitting' = FALSE
          /\ txc' = txc - 1
          /\ UNCHANGED <<udr, sent, uart_tx_tail>>
  /\ drains' = drains + 1
  /\ UNCHANGED <<uart_tx_buffer, uart_tx_head, enq, slot_id, lastvars, mainvars,
                 PINB, PINC, PIND, pcif, flips, ev, hung, returned, cur_id,
                 tmp_id, n, entry>>

\* faulty variant, for sensitivity: the handler sends the byte after the tail slot and
\* advances uart_tx_tail by two
USART_TX_vect_skips(go) ==
  /\ IntEnabled /\ txc > 0 /\ go
  /\ IF uart_tx_head # uart_tx_tail
     THEN /\ udr' = Append(udr, uart_tx_buffer[NextIndex(uart_tx_tail)])
          /\ sent' = Append(sent, slot_id[NextIndex(uart_tx_tail)])
          /\ uart_tx_tail' = NextIndex(NextIndex(uart_tx_tail))
          /\ UNCHANGED <<uart_transmitting, txc>>
     ELSE /\ uart_transmitting' = FALSE
          /\ txc' = txc - 1
          /\ UNCHANGED <<udr, sent, uart_tx_tail>>
  /\ drains' = drains + 1
  /\ UNCHANGED <<uart_tx_buffer, uart_tx_head, enq, slot_id, lastvars, mainvars,
                 PINB, PINC, PIND, pcif, flips, ev, hung, returned, cur_id,
                 tmp_id, n, entry>>

\* lines 68-75; runs once for each transmit-complete event
USART_TX_vect(go) ==
  /\ IntEnabled /\ txc > 0 /\ go
  /\ IF uart_tx_head # uart_tx_tail
     THEN /\ udr' = Append(udr, uart_tx_buffer[uart_tx_tail])
          /\ sent' = Append(sent, slot_id[uart_tx_tail])
          /\ uart_tx_tail' = NextIndex(uart_tx_tail)
          /\ UNCHANGED <<uart_transmitting, txc>>
     ELSE /\ uart_transmitting' = FALSE
          /\ txc' = txc - 1
          /\ UNCHANGED <<udr, sent, uart_tx_tail>>
  /\ drains' = drains + 1
  /\ UNCHANGED <<uart_tx_buffer, uart_tx_head, enq, slot_id, lastvars, mainvars,
                 PINB, PINC, PIND, pcif, flips, ev, hung, returned, cur_id,
                 tmp_id, n, entry>>

\* faulty variant, for sensitivity: the snapshot is stored only when an edge was reported
StoreSnapshotOnEdge(q, last, current) ==
  IF q.hung \/ Len(q.enq) = Len(enq) THEN last ELSE current

\* the value lines 108, 128 and 148 leave in the group's snapshot; the store
\* is not reached by a handler stuck in uart_send_char
StoreSnapshot(q, last, current) == IF q.hung THEN last ELSE current

\* faulty variant, for sensitivity: the second button is tested before the first
EdgeHandlerSecondFirst(current, last, btn1, cmd1, btn2, cmd2) ==
  LET changed == Xor8(current, last)
      q1 == IF FallingEdge(changed, current, btn2) THEN SendPair(Q, cmd2) ELSE Q
  IN  IF FallingEdge(changed, current, btn1) THEN SendPair(q1, cmd1) ELSE q1

\* The body shared by the three handlers: test the first button, then the
\* second, in the order the source tests them.  Gives the queue afterwards.
EdgeHandler(current, last, btn1, cmd1, btn2, cmd2) ==
  LET changed == Xor8(current, last)
      q1 == IF FallingEdge(changed, current, btn1) THEN SendPair(Q, cmd1) ELSE Q
  IN  IF FallingEdge(changed, current, btn2) THEN SendPair(q1, cmd2) ELSE q1

\* the record of one evaluation
Evaluation(g, last, current, q) ==
  [g |-> g, prev |-> last, cur |-> current,
   out |-> SubSeq(q.enq, Len(enq) + 1, Len(q.enq)), done |-> ~q.hung]

\* faulty variant, for sensitivity: the group-B handler also stores its reading in the
\* group-C snapshot
PCINT0_vect_shared ==
  /\ IntEnabled /\ "B" \in pcif
  /\ LET current == PINB
         q == EdgeHandler(current, last_portb, BTN_DOWN, CMD_DOWN, BTN_RIGHT, CMD_RIGHT)
     IN  /\ Commit(q)
         /\ last_portb' = StoreSnapshot(q, last_portb, current)
         /\ last_portc' = StoreSnapshot(q, last_portc, current)
         /\ ev' = Evaluation("B", last_portb, current, q)
  /\ pcif' = pcif \ {"B"}
  /\ UNCHANGED <<last_portd, mainvars, PINB, PINC, PIND,
                 cur_id, tmp_id, n, flips, entry, drains>>

\* lines 92-109
PCINT0_vect ==
  /\ IntEnabled /\ "B" \in pcif
  /\ LET current == PINB
         q == EdgeHandler(current, last_portb, BTN_DOWN, CMD_DOWN, BTN_RIGHT, CMD_RIGHT)
     IN  /\ Commit(q)
         /\ last_portb' = StoreSnapshot(q, last_portb, current)
         /\ ev' = Evaluation("B", last_portb, current, q)
  /\ pcif' = pcif \ {"B"}
  /\ UNCHANGED <<last_portc, last_portd, mainvars, PINB, PINC, PIND,
                 cur_id, tmp_id, n, flips, entry, drains>>

\* lines 112-129
PCINT1_vect ==
  /\ IntEnabled /\ "C" \in pcif
  /\ LET current == PINC
         q == EdgeHandler(current, last_portc, BTN_UP, CMD_UP, BTN_LEFT, CMD_LEFT)
     IN  /\ Commit(q)
         /\ last_portc' = StoreSnapshot(q, last_portc, current)
         /\ ev' = Evaluation("C", last_portc, current, q)
  /\ pcif' = pcif \ {"C"}
  /\ UNCHANGED <<last_portb, last_portd, mainvars, PINB, PINC, PIND,
                 cur_id, tmp_id, n, flips, entry, drains>>

\* lines 132-149
PCINT2_vect ==
  /\ IntEnabled /\ "D" \in pcif
  /\ LET current == PIND
         q == EdgeHandler(current, last_portd, BTN_ACTION_A, CMD_ACTION_A,
                          BTN_ACTION_B, CMD_ACTION_B)
     IN  /\ Commit(q)
         /\ last_portd' = StoreSnapshot(q, last_portd, current)
         /\ ev' = Evaluation("D", last_portd, current, q)
  /\ pcif' = pcif \ {"D"}
  /\ UNCHANGED <<last_portb, last_portc, mainvars, PINB, PINC, PIND,
                 cur_id, tmp_id, n, flips, entry, drains>>

----------------------------------------------------------------------------
(* Environment: the levels on the pins change.  A change of a pin enabled  *)
(* in the group's mask (lines 82-84) raises the group's pin-change flag.   *)

Raise(g, m, mask) == IF And8(m, mask) # 0 THEN pcif \cup {g} ELSE pcif

PinChangeB(go) ==
  /\ go /\ ~hung
  /\ \E m \in {BTN_DOWN, BTN_RIGHT, BTN_DOWN + BTN_RIGHT, OtherPin} :
       /\ PINB' = Xor8(PINB, m)
       /\ pcif' = Raise("B", m, PCMSK0)
  /\ flips' = flips + 1
  /\ UNCHANGED <<progvars, mainvars, PINC, PIND, udr, txc, hung,
                 enq, slot_id, sent, returned, cur_id, tmp_id, ev, n, entry, drains>>

PinChangeC(go) ==
  /\ go /\ ~hung
  /\ \E m \in {BTN_LEFT, BTN_UP, BTN_LEFT + BTN_UP, OtherPin} :
       /\ PINC' = Xor8(PINC, m)
       /\ pcif' = Raise("C", m, PCMSK1)
  /\ flips' = flips + 1
  /\ UNCHANGED <<progvars, mainvars, PINB, PIND, udr, txc, hung,
                 enq, slot_id, sent, returned, cur_id, tmp_id, ev, n, entry, drains>>

PinChangeD(go) ==
  /\ go /\ ~hung
  /\ \E m \in {BTN_ACTION_B, BTN_ACTION_A, BTN_ACTION_B + BTN_ACTION_A, OtherPin} :
       /\ PIND' = Xor8(PIND, m)
       /\ pcif' = Raise("D", m, PCMSK2)
  /\ flips' = flips + 1
  /\ UNCHANGED <<progvars, mainvars, PINB, PINC, udr, txc, hung,
                 enq, slot_id, sent, returned, cur_id, tmp_id, ev, n, entry, drains>>

----------------------------------------------------------------------------
(* Specifications                                                          *)

\* Spec: the running system around a heartbeat, with button activity
LoopWindow ==
  \/ n % HEARTBEAT_PERIOD >= HEARTBEAT_PERIOD - HbLead
  \/ n % HEARTBEAT_PERIOD < PostLoops

Next ==
  \/ main_loop(LoopWindow) \/ main_hb_lf \/ main_hb_reset
  \/ SendCharStep
  \/ USART_TX_vect(drains < MaxDrains)
  \/ PCINT0_vect \/ PCINT1_vect \/ PCINT2_vect
  \/ PinChangeB(flips < MaxFlips) \/ PinChangeC(flips < MaxFlips)
  \/ PinChangeD(flips < MaxFlips)

Spec == Init /\ [][Next]_vars

\* SpecEdge: the edge detector while main() sits in the delay of line 179,
\* the heartbeat not yet due
NextEdge ==
  \/ PinChangeB(flips < MaxEdgeFlips) \/ PinChangeC(flips < MaxEdgeFlips)
  \/ PinChangeD(flips < MaxEdgeFlips)
  \/ PCINT0_vect \/ PCINT1_vect \/ PCINT2_vect
  \/ USART_TX_vect(drains < MaxDrains)

SpecEdge == Init /\ [][NextEdge]_vars

\* SpecQuiet: the program from reset with no button touched
NextQuiet ==
  \/ main_boot \/ uart_send_string \/ main_171
  \/ main_loop(n < MaxQuietLoops) \/ main_hb_lf \/ main_hb_reset
  \/ SendCharStep
  \/ USART_TX_vect(drains < MaxQuietDrains)

SpecQuiet == InitReset /\ [][NextQuiet]_vars

\* SpecFill: uart_send_string(FillString) on an empty idle queue
NextFill ==
  \/ uart_send_string
  \/ SendCharStep
  \/ USART_TX_vect(drains < MaxFillDrains)

SpecFill == InitFill /\ [][NextFill]_vars

\* SpecStart: the program from reset up to the top of the loop, with the
\* group-B buttons active once setup_pin_change_interrupts has enabled the
\* pin-change masks
NextStart ==
  \/ main_boot \/ uart_send_string \/ main_171
  \/ SendCharStep
  \/ USART_TX_vect(drains < MaxStartDrains)
  \/ PCINT0_vect
  \/ PinChangeB(pc # "boot" /\ flips < MaxStartFlips)

SpecStart == InitReset /\ [][NextStart]_vars

\* SpecBurst: uart_send_string(FillString) on an empty idle queue while the
\* group-B buttons are pressed, in the time the hardware takes to shift out
\* the first byte (no transmit-complete event is serviced yet)
NextBurst ==
  \/ uart_send_string
  \/ SendCharStep
  \/ PCINT0_vect
  \/ PinChangeB(flips < MaxBurstFlips)

SpecBurst == InitFill /\ [][NextBurst]_vars

----------------------------------------------------------------------------
(* Properties                                                              *)

\* ids of the bytes handed to the hardware so far
Handed == {sent[i] : i \in 1 .. Len(sent)}

\* bytes stored by an enqueue and not yet handed to the hardware
Pending == Cardinality({i \in 1 .. Len(enq) : i \notin Handed})

\* main is in the busy-wait of line 62: its next test repeats the loop
Spinning == ENABLED (sc_wait /\ pc' = pc)

\* main or a handler is in the busy-wait of line 62
Waiting == Spinning \/ hung

CommandCodes == {CMD_UP, CMD_DOWN, CMD_RIGHT, CMD_LEFT, CMD_ACTION_A,
                 CMD_ACTION_B, CMD_HEARTBEAT}

\* C1: the bytes written to UDR0 are, in order, the bytes the enqueue calls
\* stored: the i-th byte handed is the i-th byte stored (none lost, none
\* duplicated, none reordered).
C1_Fifo ==
  /\ Len(udr) <= Len(enq)
  /\ \A i \in 1 .. Len(udr) : sent[i] = i /\ udr[i] = enq[i]

\* the pin -> command table of the claim, as <<bit, command>>
ClaimPins(g) ==
  CASE g = "B" -> {<<3, 68>>, <<4, 82>>}
    [] g = "C" -> {<<2, 76>>, <<3, 85>>}
    [] g = "D" -> {<<2, 66>>, <<5, 65>>}
    [] OTHER   -> {}

\* commands of the monitored pins that are 1 in prev and 0 in cur
FellCmds(g, prev, cur) ==
  {p[2] : p \in {x \in ClaimPins(g) : Bit(prev, x[1]) = 1 /\ Bit(cur, x[1]) = 0}}

\* C2: a completed evaluation of a group's handler enqueues exactly one
\* (command, '\n') pair for each monitored pin that is 1 in the previous
\* snapshot and 0 in the current one, with the command the table gives, and
\* nothing else.
C2_EdgePairs ==
  ev.done =>
    LET cmds == FellCmds(ev.g, ev.prev, ev.cur)
        k    == Cardinality(cmds)
    IN  /\ Len(ev.out) = 2 * k
        /\ \A j \in 1 .. k : ev.out[2 * j] = LF
        /\ {ev.out[2 * j - 1] : j \in 1 .. k} = cmds

\* group B went from 0b00011000 to 0b00010000 and 'D','\n' was enqueued
C2_Witness ==
  /\ ev.done /\ ev.g = "B" /\ ev.prev = 24 /\ ev.cur = 16
  /\ ev.out = <<68, 10>>

\* C3: uart_send_char waits only with at least capacity - 1 = 31 bytes
\* pending, and no store into uart_tx_buffer replaces a byte that was
\* enqueued and not yet handed to the hardware.
C3_Capacity ==
  /\ [](Waiting => Pending >= UART_BUFFER_SIZE - 1)
  /\ [][\A i \in Slots :
          slot_id'[i] # slot_id[i] => slot_id[i] = 0 \/ slot_id[i] \in Handed]_vars

\* C4: a byte whose uart_send_char has returned is eventually handed to the
\* hardware.  Stated as what a finite run can refute: such a byte has been
\* handed already or is still held by a slot of the buffer, for a byte that
\* is in neither place can never be handed.
C4_Delivered ==
  \A k \in returned : k \in Handed \/ (\E i \in Slots : slot_id[i] = k)

\* the queue is empty and the channel idle
IdleEmpty == ~uart_transmitting /\ uart_tx_head = uart_tx_tail /\ ~hung

C6_Blocks32nd == drains = 0 => Cardinality(returned) <= 31

\* C6: with no transmit-complete event, 32 calls return, the 33rd is the first
\* to wait and it returns only after a transmit-complete event; until then
\* no store replaces a byte not yet handed to the hardware.
C6_Blocks33rd ==
  drains = 0 =>
    /\ Cardinality(returned) <= 32
    /\ Spinning => s - 1 = 33
    /\ pc = "sc_store" => slot_id[idx] = 0 \/ slot_id[idx] \in Handed

\* the 33rd call is spinning, 32 calls have returned, nothing has drained
C6_Witness ==
  /\ Spinning /\ drains = 0
  /\ s - 1 = 33 /\ Cardinality(returned) = 32

\* C7: after the boot announcement, every command code written to UDR0 is
\* followed at once by a line feed.
C7_Framing ==
  \A i \in (Len(START_STR) + 1) .. (Len(udr) - 1) :
    udr[i] \in CommandCodes => udr[i + 1] = LF

\* both monitored pins of the evaluated group fell
BothFell == ev.done /\ Cardinality(FellCmds(ev.g, ev.prev, ev.cur)) = 2

\* C8 as claimed: when both pins fall in one evaluation the lower-numbered
\* pin's pair is enqueued first in every group.
C8_LowerPinFirst ==
  BothFell =>
    ev.out = CASE ev.g = "B" -> <<CMD_DOWN, LF, CMD_RIGHT, LF>>
               [] ev.g = "C" -> <<CMD_LEFT, LF, CMD_UP, LF>>
               [] ev.g = "D" -> <<CMD_ACTION_B, LF, CMD_ACTION_A, LF>>

\* C8: when both pins fall in one evaluation the pairs are enqueued in the
\* order the handler tests the pins: DOWN then RIGHT, UP then LEFT,
\* ACTION_A then ACTION_B.
C8_SourceOrder ==
  BothFell =>
    ev.out = CASE ev.g = "B" -> <<68, 10, 82, 10>>
               [] ev.g = "C" -> <<85, 10, 76, 10>>
               [] ev.g = "D" -> <<65, 10, 66, 10>>

\* group C saw both its pins fall
C8_Witness == BothFell /\ ev.g = "C"

\* C9: after a completed evaluation the group's snapshot is the whole 8-bit
\* value the handler read, edge or no edge.
C9_SnapshotStored ==
  ev.done =>
    /\ ev.g = "B" => last_portb = ev.cur
    /\ ev.g = "C" => last_portc = ev.cur
    /\ ev.g = "D" => last_portd = ev.cur

\* an evaluation that found no edge stored a value with a non-monitored bit
\* set
C9_Witness ==
  /\ ev.done /\ ev.g = "B" /\ ev.out = <<>>
  /\ Bit(ev.cur, 0) = 1 /\ ev.cur # ev.prev /\ last_portb = ev.cur

\* C10: at the top of the loop after n iterations exactly n \div 1000
\* heartbeat pairs have been enqueued, and heartbeat_counter, reset by each
\* pair, is n % 1000, so in 0 .. 999.
C10_Heartbeat ==
  pc = "loop" =>
    /\ enq = BootImage(n \div 1000)
    /\ heartbeat_counter = n % 1000
    /\ heartbeat_counter \in 0 .. 999

\* two thousand iterations done, two heartbeats enqueued
C10_Witness ==
  /\ pc = "loop" /\ n = 2000
  /\ Cardinality({i \in 1 .. Len(enq) : enq[i] = CMD_HEARTBEAT}) = 2

\* SpecQuiet reaches the state Spec starts in, for no heartbeat sent yet
QuietReachesLoopTop ==
  /\ pc = "loop" /\ heartbeat_counter = HEARTBEAT_PERIOD - HbLead
  /\ n = HEARTBEAT_PERIOD - HbLead
  /\ udr = START_STR /\ enq = START_STR /\ txc = 0
  /\ ~uart_transmitting /\ uart_tx_head = uart_tx_tail
  /\ uart_tx_head = Len(START_STR)

\* the step is a run of the transmit-complete handler
TxHandlerStep == drains' # drains

\* the step is a run of group g's pin-change handler
PinHandlerStep(g) == g \in pcif /\ g \notin pcif'

\* C11: uart_tx_tail is changed only by a run of the transmit-complete
\* handler (a producer, main or a pin-change handler inside uart_send_char,
\* leaves it unchanged), and a run of the transmit-complete handler leaves
\* uart_tx_head unchanged.
C11_SingleWriter ==
  [][/\ uart_tx_tail' # uart_tx_tail => TxHandlerStep
     /\ TxHandlerStep => uart_tx_head' = uart_tx_head]_vars

\* C12: uart_transmitting is false at reset; it goes from false to true only
\* where an enqueue starts transmission (line 54 in main's call, or a handler
\* run that stored a byte and wrote UDR0); a run of the transmit-complete
\* handler that finds head # tail keeps it true; it goes from true to false
\* only in a run of that handler that finds head = tail.
C12_Machine ==
  /\ ~uart_transmitting
  /\ [][/\ (~uart_transmitting /\ uart_transmitting') =>
            \/ pc = "si_set"
            \/ /\ \E g \in {"B", "C", "D"} : PinHandlerStep(g)
               /\ Len(enq') > Len(enq) /\ Len(udr') = Len(udr) + 1
        /\ (uart_transmitting /\ TxHandlerStep /\ uart_tx_head # uart_tx_tail) =>
            uart_transmitting'
        /\ (uart_transmitting /\ ~uart_transmitting') =>
            TxHandlerStep /\ uart_tx_head = uart_tx_tail]_vars

\* the channel went idle -> transmitting -> transmitting -> idle: a byte was
\* handed by the enqueue, another by the handler, and the handler then found
\* the queue empty
C12_Witness ==
  /\ ~uart_transmitting /\ uart_tx_head = uart_tx_tail /\ txc = 0
  /\ Len(udr) >= 2 /\ drains = 2 /\ Len(sent) = Len(enq)

\* C13: uart_send_string("START\n") enqueues 'S','T','A','R','T','\n' once
\* per byte in that order, once, before the loop starts; with no button
\* touched they are the first six bytes written to UDR0 and every heartbeat
\* byte comes after them.
C13_BootOnce ==
  /\ \A i \in 1 .. Len(enq) : i <= Len(START_STR) => enq[i] = START_STR[i]
  /\ Cardinality({i \in 1 .. Len(enq) : enq[i] = START_STR[1]}) <= 1
  /\ pc = "str" => Len(enq) = s - 1
  /\ pc \in {"main_171", "loop", "hb_lf", "hb_reset"} => Len(enq) >= Len(START_STR)
  /\ \A i \in 1 .. Len(udr) :
       /\ i <= Len(START_STR) => udr[i] = START_STR[i]
       /\ udr[i] = CMD_HEARTBEAT => i > Len(START_STR)

\* C14: a port snapshot changes only in a run of its own group's handler.
C14_PrivateSnapshots ==
  [][/\ last_portb' # last_portb => PinHandlerStep("B")
     /\ last_portc' # last_portc => PinHandlerStep("C")
     /\ last_portd' # last_portd => PinHandlerStep("D")]_vars

\* the group-B handler has stored a new snapshot after an edge, main is
\* inside uart_send_char, the other two snapshots are as initialised
C14_Witness ==
  /\ ev.done /\ ev.g = "B" /\ ev.out # <<>> /\ last_portb # IdleB
  /\ last_portc = IdleC /\ last_portd = IdleD
  /\ pc = "sc_ret" /\ drains > 0

\* C15: a uart_send_char that is waiting on the full queue, in main or in a
\* pin-change handler, eventually returns, given a transmit-complete event
\* for every byte written to UDR0.  Stated as what a finite run can refute:
\* while a call waits, a transmit-complete event is pending and the CPU
\* accepts interrupts, for uart_tx_tail moves only in that handler and a wait
\* without it never ends.
C15_WaitReturns == Waiting => (txc > 0 /\ IntEnabled)

\* C16: a run of the transmit-complete handler that finds head # tail writes
\* the byte of the tail slot to UDR0 and advances tail by one modulo 32,
\* leaving head, the buffer and uart_transmitting unchanged; one that finds
\* head = tail clears uart_transmitting and leaves head, tail and the buffer
\* unchanged, writing nothing.
C16_Completion ==
  [][TxHandlerStep =>
       IF uart_tx_head # uart_tx_tail
       THEN /\ udr' = Append(udr, uart_tx_buffer[uart_tx_tail])
            /\ uart_tx_tail' = (uart_tx_tail + 1) % 32
            /\ uart_tx_head' = uart_tx_head
            /\ uart_tx_buffer' = uart_tx_buffer
            /\ uart_transmitting' = uart_transmitting
       ELSE /\ ~uart_transmitting'
            /\ uart_tx_head' = uart_tx_head
            /\ uart_tx_tail' = uart_tx_tail
            /\ uart_tx_buffer' = uart_tx_buffer
            /\ udr' = udr]_vars

\* the handler has run twice after DOWN was pressed: it handed the '\n' of
\* slot 31, taking tail from 31 to 0, then found the queue empty and cleared
\* the flag
C16_Witness ==
  /\ drains = 2 /\ ~uart_transmitting /\ txc = 0
  /\ uart_tx_tail = 0 /\ uart_tx_head = 0
  /\ udr = BootImage(12) \o <<CMD_DOWN, LF>>

\* main is outside uart_send_char (no handler is ever part-way: each is one
\* step)
Quiescent == pc \in {"boot", "str", "main_171", "loop", "hb_lf", "hb_reset"} /\ ~hung

\* C17: with no call and no handler part-way through, an idle channel means
\* an empty queue.
C17_IdleMeansEmpty ==
  Quiescent => (~uart_transmitting => uart_tx_head = uart_tx_tail)

\* C18: at most one byte handed to UDR0 is awaiting its transmit-complete
\* event.
C18_OneInFlight == txc <= 1

\* C19: uart_tx_head and uart_tx_tail, and every subscript used on
\* uart_tx_buffer, are in 0 .. 31.
C19_IndicesInRange ==
  /\ uart_tx_head \in 0 .. 31
  /\ uart_tx_tail \in 0 .. 31
  /\ next_head \in 0 .. 31
  /\ pc \in {"sc_store", "si_rdbuf"} => idx \in 0 .. 31

\* main's store into slot 31 wrapped head to 0 and tail has followed it
C19_Witness ==
  /\ uart_tx_head = 0 /\ uart_tx_tail = 0
  /\ slot_id[31] = Len(enq) /\ Len(enq) > Len(BootImage(12))
  /\ pc = "sc_ret"

====
